---- MODULE Spec2Model ----
(***************************************************************************)
(* A model of metagpt/roles/role.py: one Role (agent) with its message     *)
(* buffer, memory, watch set, action list and the observe/think/act cycle  *)
(* of Role.run, interleaved with producers (put_message), subscription     *)
(* changes (subscribe, _watch) and environment attachment (set_env).       *)
(*                                                                         *)
(* Python values are represented as follows.                               *)
(*   None / "no object"      the string "None" for actions and the         *)
(*                           environment, the empty sequence <<>> for an   *)
(*                           optional Message (<<m>> is the Message m)     *)
(*   a Python str answer     a sequence of characters, each character a    *)
(*                           one-token string ("SUP2" is U+00B2, "AR1" is  *)
(*                           U+0661)                                       *)
(*   list index i (0-based)  sequence index i + 1                          *)
(***************************************************************************)
EXTENDS Integers, Sequences, FiniteSets, TLC

\* ------------------------------------------------------------------ bounds
MaxActions == 3      \* longest configured action list
MaxPush == 2         \* messages pushed into the buffer over a behaviour
MaxAnswerLen == 2    \* longest backend answer, in characters
MaxPrior == 1        \* longest history persisted before the Role was built

\* ------------------------------------------------------- identity of the Role
RoleName == "Alice"
RoleProfile == "Greeter"
ObjectName == "Role"

ActionPool == <<"SayHi", "SayBye", "WriteCode", "WriteTest", "Summarize">>

\* producing-action identities that inbound messages carry ("" is the default
\* of a Message built from plain text)
CauseTags == {"", "SayHi"}

\* tags a caller may subscribe to
SubscribeTags == {"SayHi"}

\* characters a backend answer is made of
AnswerChars == {"0", "1", "2", "7", "x", "SUP2", "AR1"}

VARIABLES
    actions,           \* Role._actions
    msg_buffer,        \* RoleContext.msg_buffer
    memory,            \* contents of the object RoleContext.memory refers to
    mem_is_ltm,        \* RoleContext.memory is RoleContext.long_term_memory
    ltm_configured,    \* CONFIG.long_term_memory
    persisted,         \* history held by the recoverable-memory backend
    recovered,         \* recover_memory has been called on this Role
    state,             \* RoleContext.state
    todo,              \* RoleContext.todo
    watch,             \* RoleContext.watch
    news,              \* RoleContext.news
    env,               \* RoleContext.env
    env_tags,          \* tags the Environment last got by set_subscribed_tags
    published,         \* broadcasts by Environment.publish_message: their
                       \* number and the Message of the latest one
    pc,                \* where Role.run is: "idle" (not running), "thinking"
                       \* (awaiting LLM.aask), "acting" (awaiting Action.run)
    act_arg,           \* argument of the Action.run call in flight
    pushes,            \* number of messages pushed so far
    lastOp             \* the operation that produced this state, its outcome

vars == <<actions, msg_buffer, memory, mem_is_ltm, ltm_configured, persisted,
          recovered, state, todo, watch, news, env, env_tags, published, pc,
          act_arg, pushes, lastOp>>

\* ---------------------------------------------------------------- messages
\* A Message received from outside: the k-th message pushed, caused by c.
InMessage(k, c) ==
    [id |-> k, content |-> "hello", instruct_content |-> "None",
     role |-> "user", cause_by |-> c, msg_from |-> ""]

\* A Message restored from the recoverable-memory backend.
PriorMessage(c) ==
    [id |-> 0, content |-> "old", instruct_content |-> "None",
     role |-> "user", cause_by |-> c, msg_from |-> ""]

Op(name) ==
    [op |-> name, arg |-> <<>>, answer |-> <<>>, ret |-> <<>>, count |-> 0,
     raised |-> "", tags |-> {}]

\* What an Action's run returns: plain text or an ActionOutput.
Responses ==
    {[kind |-> "str", content |-> "Hi!", instruct_content |-> "None"],
     [kind |-> "ActionOutput", content |-> "Hi!", instruct_content |-> "fields"]}

\* ------------------------------------------------- MessageQueue and Memory
push(buf, m) == Append(buf, m)

pop_all(buf) == [batch |-> buf, rest |-> <<>>]

empty(buf) == Len(buf) = 0

add_batch(mem, batch) == mem \o batch

get_by_actions(mem, tags) == SelectSeq(mem, LAMBDA m : m.cause_by \in tags)

get(mem) == mem

\* LongTermMemory.recover_memory: the log is rebuilt from the backend's history.
recover_memory(store) == store

\* ------------------------------------------------------------ RoleContext
important_memory_all(mem, w) == get(mem)

important_memory_news(mem, w) == get_by_actions(news, w)

important_memory(mem, w) == get_by_actions(mem, w)

history(mem) == get(mem)

\* RoleContext.check: with long-term memory configured, recover and let
\* memory refer to the long-term memory object.
check(mem) ==
    IF ltm_configured
    THEN [memory |-> recover_memory(persisted), mem_is_ltm |-> TRUE,
          recovered |-> TRUE]
    ELSE [memory |-> mem, mem_is_ltm |-> mem_is_ltm, recovered |-> FALSE]

\* --------------------------------------------------- str.isdigit and int()
\* Characters of Unicode category Nd: int() reads them as decimal digits.
DecimalChars == {"0", "1", "2", "3", "4", "5", "6", "7", "8", "9", "AR1"}

\* Characters str.isdigit accepts: the decimal ones and the digit-typed
\* ones that are not decimal (U+00B2 SUPERSCRIPT TWO).
DigitChars == DecimalChars \cup {"SUP2"}

DecimalValue(c) ==
    CASE c = "0" -> 0 [] c = "1" -> 1 [] c = "2" -> 2 [] c = "3" -> 3
      [] c = "4" -> 4 [] c = "5" -> 5 [] c = "6" -> 6 [] c = "7" -> 7
      [] c = "8" -> 8 [] c = "9" -> 9 [] c = "AR1" -> 1

isdigit(s) == Len(s) > 0 /\ \A i \in 1..Len(s) : s[i] \in DigitChars

RECURSIVE DecimalNumber(_)
DecimalNumber(s) ==
    IF Len(s) = 0 THEN 0
    ELSE 10 * DecimalNumber(SubSeq(s, 1, Len(s) - 1)) + DecimalValue(s[Len(s)])

\* int(s), for a string without sign, blanks or underscores, raises
\* ValueError when s is empty or a character is not a decimal digit.
int_raises(s) == Len(s) = 0 \/ \E i \in 1..Len(s) : s[i] \notin DecimalChars

\* int(s) where it does not raise.
int(s) == DecimalNumber(s)

range(n) == 0..(n - 1)

\* ------------------------------------------------------------------- Role
subscribed_tags_with_defaults(w) ==
    w \cup {RoleName, ObjectName, RoleProfile, "Alice(Greeter)", "Alice(Role)"}

subscribed_tags(w) ==
    IF w # {} THEN w
    ELSE {RoleName, ObjectName, RoleProfile, "Alice(Greeter)", "Alice(Role)"}

is_idle_no_buffer == Len(news) = 0 /\ todo = "None"

is_idle == Len(news) = 0 /\ todo = "None" /\ empty(msg_buffer)

\* Role._set_state: the state is assigned first, then the action is looked up,
\* which raises IndexError when the index is past the end of the list.
_set_state(st) ==
    IF st < Len(actions)
    THEN [state |-> st, todo |-> actions[st + 1], raised |-> ""]
    ELSE [state |-> st, todo |-> todo, raised |-> "IndexError"]

\* Role._think from the backend's answer on (lines 204-207).
_think(next_state) ==
    IF ~isdigit(next_state) THEN _set_state(0)
    ELSE IF int_raises(next_state)
    THEN [state |-> state, todo |-> todo, raised |-> "ValueError"]
    ELSE IF int(next_state) \notin range(Len(actions)) THEN _set_state(0)
    ELSE _set_state(int(next_state))

_observe_no_drain(buf, mem) ==
    [news |-> buf, msg_buffer |-> buf, memory |-> add_batch(mem, buf),
     count |-> Len(buf)]

_observe_keep_news(buf, mem) ==
    LET popped == pop_all(buf)
    IN  [news |-> news \o popped.batch, msg_buffer |-> popped.rest,
         memory |-> add_batch(mem, popped.batch), count |-> Len(popped.batch)]

\* Role._observe on a buffer and a memory: the drained batch becomes the news
\* and is appended to the memory.
_observe(buf, mem) ==
    LET popped == pop_all(buf)
    IN  [news |-> popped.batch, msg_buffer |-> popped.rest,
         memory |-> add_batch(mem, popped.batch), count |-> Len(popped.batch)]

put_unless_running(buf, message) ==
    IF message = <<>> \/ pc # "idle" THEN buf ELSE push(buf, message[1])

\* The buffer after Role.put_message(message).
put(buf, message) == IF message = <<>> THEN buf ELSE push(buf, message[1])

no_news_never(count) == FALSE

\* Role.run's test after observing: no new information, suspend.
no_news(count) == count = 0

only_one_action_never == FALSE

\* Role._think's first test: with one action there is nothing to choose.
only_one_action == Len(actions) = 1

\* The Message Role._act builds from the Action's response.
reply(response) ==
    [id |-> 0, content |-> response.content,
     instruct_content |->
        IF response.kind = "ActionOutput" THEN response.instruct_content
        ELSE "None",
     role |-> RoleProfile, cause_by |-> todo, msg_from |-> ObjectName]

publish_message_no_env_test(msg, pub) ==
    IF msg = <<>> THEN pub ELSE [n |-> pub.n + 1, last |-> msg]

\* What the Environment has been handed after Role.publish_message(msg).
publish_message(msg, pub) ==
    IF msg = <<>> THEN pub
    ELSE IF env = "None" THEN pub
    ELSE [n |-> pub.n + 1, last |-> msg]

watch_replace(w, tags) == tags

\* RoleContext.watch after Role.subscribe's watch.update(tags).
watch_update(w, tags) == w \cup tags

todo_at_publish_unreset == todo

\* RoleContext.todo when Role.run calls publish_message: reset just before.
todo_at_publish == "None"

\* ---------------------------------------------------------------- actions
put_message(message) ==
    /\ message # <<>> => pushes < MaxPush
    /\ msg_buffer' = put(msg_buffer, message)
    /\ pushes' = IF message = <<>> THEN pushes ELSE pushes + 1
    /\ lastOp' = [Op("put_message") EXCEPT !.arg = message]
    /\ UNCHANGED <<actions, memory, mem_is_ltm, ltm_configured, persisted,
                   recovered, state, todo, watch, news, env, env_tags,
                   published, pc, act_arg>>

\* Role.run from its entry to its first suspension (the backend call of
\* _think, or the Action call of _act) or to its return on no news.
\* test_message is the Message made from the test input, if one is given.
run(test_message) ==
    /\ pc = "idle"
    /\ test_message # <<>> => pushes < MaxPush
    /\ pushes' = IF test_message = <<>> THEN pushes ELSE pushes + 1
    /\ LET obs == _observe(put(msg_buffer, test_message), memory)
           call == Op("run")
       IN  /\ news' = obs.news
           /\ msg_buffer' = obs.msg_buffer
           /\ memory' = obs.memory
           /\ persisted' = IF mem_is_ltm THEN obs.memory ELSE persisted
           /\ IF no_news(obs.count)
              THEN /\ lastOp' = [call EXCEPT !.count = obs.count]
                   /\ UNCHANGED <<state, todo, pc, act_arg>>
              ELSE IF only_one_action
              THEN /\ state' = _set_state(0).state
                   /\ todo' = _set_state(0).todo
                   /\ act_arg' = important_memory(obs.memory, watch)
                   /\ pc' = "acting"
                   /\ lastOp' = [call EXCEPT !.count = obs.count]
              ELSE /\ pc' = "thinking"
                   /\ lastOp' = [call EXCEPT !.count = obs.count]
                   /\ UNCHANGED <<state, todo, act_arg>>
    /\ UNCHANGED <<actions, mem_is_ltm, ltm_configured, recovered, watch, env,
                   env_tags, published>>

\* The backend answers next_state: _think validates it and sets the state;
\* _react goes on to _act, which calls the Action with the important memory.
think_return(next_state) ==
    /\ pc = "thinking"
    /\ LET t == _think(next_state)
       IN  /\ state' = t.state
           /\ todo' = t.todo
           /\ lastOp' = [Op("_think") EXCEPT !.answer = next_state,
                                             !.raised = t.raised]
           /\ IF t.raised # ""
              THEN pc' = "idle" /\ UNCHANGED act_arg
              ELSE pc' = "acting" /\ act_arg' = important_memory(memory, watch)
    /\ UNCHANGED <<actions, msg_buffer, memory, mem_is_ltm, ltm_configured,
                   persisted, recovered, watch, news, env, env_tags, published,
                   pushes>>

\* The backend call fails: the failure leaves _think, _react and run.
think_raise ==
    /\ pc = "thinking"
    /\ pc' = "idle"
    /\ lastOp' = [Op("_think") EXCEPT !.raised = "LLMError"]
    /\ UNCHANGED <<actions, msg_buffer, memory, mem_is_ltm, ltm_configured,
                   persisted, recovered, state, todo, watch, news, env,
                   env_tags, published, act_arg, pushes>>

\* The Action returns response: _act wraps it, run clears todo, publishes
\* and returns the Message.
act_return(response) ==
    /\ pc = "acting"
    /\ LET msg == reply(response)
       IN  /\ todo' = todo_at_publish
           /\ published' = publish_message(<<msg>>, published)
           /\ lastOp' = [Op("_act") EXCEPT !.ret = <<msg>>]
    /\ pc' = "idle"
    /\ act_arg' = <<>>
    /\ UNCHANGED <<actions, msg_buffer, memory, mem_is_ltm, ltm_configured,
                   persisted, recovered, state, watch, news, env, env_tags,
                   pushes>>

\* The Action returns response, _act wraps it, run clears todo, and the
\* Environment's publish_message raises: the failure leaves run.
publish_raise(response) ==
    /\ pc = "acting"
    /\ env # "None"
    /\ todo' = todo_at_publish
    /\ pc' = "idle"
    /\ act_arg' = <<>>
    /\ lastOp' = [Op("_act") EXCEPT !.raised = "PublishError"]
    /\ UNCHANGED <<actions, msg_buffer, memory, mem_is_ltm, ltm_configured,
                   persisted, recovered, state, watch, news, env, env_tags,
                   published, pushes>>

act_raise_requeue ==
    /\ pc = "acting"
    /\ pc' = "idle"
    /\ act_arg' = <<>>
    /\ msg_buffer' = news \o msg_buffer
    /\ lastOp' = [Op("_act") EXCEPT !.raised = "ActionError"]
    /\ UNCHANGED <<actions, memory, mem_is_ltm, ltm_configured, persisted,
                   recovered, state, todo, watch, news, env, env_tags,
                   published, pushes>>

\* The Action raises: the failure leaves _act, _react and run.
act_raise ==
    /\ pc = "acting"
    /\ pc' = "idle"
    /\ act_arg' = <<>>
    /\ lastOp' = [Op("_act") EXCEPT !.raised = "ActionError"]
    /\ UNCHANGED <<actions, msg_buffer, memory, mem_is_ltm, ltm_configured,
                   persisted, recovered, state, todo, watch, news, env,
                   env_tags, published, pushes>>

subscribe(tags) ==
    /\ watch' = watch_update(watch, tags)
    /\ LET c == check(memory)
       IN  /\ memory' = c.memory
           /\ mem_is_ltm' = c.mem_is_ltm
           /\ recovered' = (recovered \/ c.recovered)
           /\ lastOp' = [Op("subscribe") EXCEPT
                            !.tags = tags,
                            !.count = IF c.recovered THEN 1 ELSE 0]
    /\ env_tags' = IF env # "None" THEN <<subscribed_tags(watch')>> ELSE env_tags
    /\ UNCHANGED <<actions, msg_buffer, ltm_configured, persisted, state, todo,
                   news, env, published, pc, act_arg, pushes>>

\* Role._watch: the tags of the action types, the Role's name and its type.
_watch(action_types) ==
    subscribe(action_types
              \cup (IF RoleName # "" THEN {RoleName} ELSE {})
              \cup {ObjectName})

set_env(e) ==
    /\ env' = e
    /\ lastOp' = Op("set_env")
    /\ UNCHANGED <<actions, msg_buffer, memory, mem_is_ltm, ltm_configured,
                   persisted, recovered, state, todo, watch, news, env_tags,
                   published, pc, act_arg, pushes>>

\* ---------------------------------------------------------- specification
RECURSIVE SeqsUpTo(_, _)
SeqsUpTo(S, n) ==
    IF n = 0 THEN {<<>>}
    ELSE LET shorter == SeqsUpTo(S, n - 1)
         IN  shorter \cup {Append(q, x) : q \in shorter, x \in S}

Answers == SeqsUpTo(AnswerChars, MaxAnswerLen)

\* One answer of each kind: a valid index, a number out of range, text, a
\* digit-typed character that is not decimal.
SomeAnswers == {<<"1">>, <<"7">>, <<"x">>, <<"SUP2">>}

PriorHistories == SeqsUpTo({PriorMessage(c) : c \in {"SayHi"}}, MaxPrior)

NewMessages == {<<>>} \cup {<<InMessage(pushes + 1, c)>> : c \in CauseTags}

WatchedTypes == {"SayHi"}

\* The inputs of the subscription and memory steps: a Message caused by a
\* watched type, and a plain-text response.
WatchedMessages == {<<>>} \cup {<<InMessage(pushes + 1, c)>> : c \in WatchedTypes}

TextResponses == {r \in Responses : r.kind = "str"}

\* The Role after construction with n actions.
Constructed ==
    /\ actions \in {SubSeq(ActionPool, 1, n) : n \in 0..MaxActions}
    /\ msg_buffer = <<>>
    /\ memory = <<>>
    /\ mem_is_ltm = FALSE
    /\ recovered = FALSE
    /\ state = 0
    /\ todo = "None"
    /\ watch = {}
    /\ news = <<>>
    /\ env = "None"
    /\ env_tags = <<>>
    /\ published = [n |-> 0, last |-> <<>>]
    /\ pc = "idle"
    /\ act_arg = <<>>
    /\ pushes = 0
    /\ lastOp = Op("__init__")

\* The default configuration: no long-term memory.
Init ==
    /\ Constructed
    /\ ltm_configured = FALSE
    /\ persisted = <<>>

\* A Role with one action, in either configuration, and any history in the
\* recoverable-memory backend.
InitLtm ==
    /\ Constructed
    /\ only_one_action
    /\ ltm_configured \in BOOLEAN
    /\ persisted \in IF ltm_configured THEN PriorHistories ELSE {<<>>}

\* The run cycle, with the steps where it is suspended and resumed.
Cycle(answers) ==
    \/ \E m \in NewMessages : run(m)
    \/ \E a \in answers : think_return(a)
    \/ think_raise
    \/ \E r \in Responses : act_return(r)
    \/ act_raise

Next ==
    \/ \E m \in NewMessages : put_message(m)
    \/ Cycle(SomeAnswers)
    \/ \E r \in Responses : publish_raise(r)
    \/ \E tags \in SUBSET SubscribeTags : subscribe(tags)
    \/ \E e \in {"None", "env"} : set_env(e)

Spec == Init /\ [][Next]_vars

\* The cycle alone, over every answer of up to MaxAnswerLen characters.
NextThink ==
    \/ \E m \in NewMessages : put_message(m)
    \/ Cycle(Answers)

SpecThink == Init /\ [][NextThink]_vars

\* Subscription, routing and long-term memory of a one-action Role, in either
\* configuration, with cycles in which no call fails.
NextLtm ==
    \/ \E m \in WatchedMessages : put_message(m)
    \/ \E m \in WatchedMessages : run(m)
    \/ \E r \in TextResponses : act_return(r)
    \/ \E tags \in SUBSET SubscribeTags : subscribe(tags)
    \/ \E types \in SUBSET WatchedTypes : _watch(types)
    \/ \E e \in {"None", "env"} : set_env(e)

SpecLtm == InitLtm /\ [][NextLtm]_vars

\* Producers that push at most MaxPush messages and then stop, calls to the
\* backend and to the Action that return without failure, and a caller that
\* keeps invoking run.
NextLive ==
    \/ \E m \in NewMessages : put_message(m)
    \/ \E m \in NewMessages : run(m)
    \/ \E a \in SomeAnswers : think_return(a)
    \/ \E r \in Responses : act_return(r)

SpecLive ==
    /\ Init
    /\ [][NextLive]_vars
    /\ WF_vars(run(<<>>))
    /\ WF_vars(\E a \in SomeAnswers : think_return(a))
    /\ WF_vars(\E r \in Responses : act_return(r))

\* ----------------------------------------------------------------- claims
\* The messages that came through the buffer, each with its own id.
IsPrefix(p, q) == Len(p) <= Len(q) /\ SubSeq(q, 1, Len(p)) = p

NoDuplicateIds(mem) ==
    \A i, j \in 1..Len(mem) : (i # j /\ mem[i].id > 0) => mem[i].id # mem[j].id

\* C1: exactly-once observation.  A run step observes the k messages of the
\* buffer (with the test message, if one was given, pushed last): it reports
\* k, memory grows by exactly those messages in push order, the buffer is
\* left empty (so an observe that follows without a push reports 0 and
\* appends nothing), and no message is in memory twice.
C1_ExactlyOnceObservation ==
    [][/\ lastOp'.op = "run" =>
            LET seeded == pushes' - pushes
                k == Len(msg_buffer) + seeded
            IN  /\ lastOp'.count = k
                /\ msg_buffer' = <<>>
                /\ Len(news') = k
                /\ Len(memory') = Len(memory) + k
                /\ IsPrefix(memory, memory')
                /\ \A i \in 1..Len(msg_buffer) :
                        /\ memory'[Len(memory) + i] = msg_buffer[i]
                        /\ news'[i] = msg_buffer[i]
                /\ seeded = 1 =>
                        /\ memory'[Len(memory')].id = pushes'
                        /\ news'[k].id = pushes'
       /\ NoDuplicateIds(memory')]_vars

\* C1 witness: one observe has drained two messages into memory, in push order.
C1_Witness ==
    /\ lastOp.op = "run"
    /\ lastOp.count = 2
    /\ Len(memory) = 2
    /\ memory[1].id = 1
    /\ memory[2].id = 2
    /\ msg_buffer = <<>>

\* C2: a run whose observe step reports zero new messages returns nothing and
\* changes nothing else: the backend is not queried and no Action is called
\* (run is not suspended in either), nothing is published, and state, todo,
\* memory and watch are as before.
C2_NoNewsIsNoOp ==
    [][(lastOp'.op = "run" /\ lastOp'.count = 0) =>
            /\ lastOp'.ret = <<>>
            /\ pc' = "idle"
            /\ act_arg' = act_arg
            /\ published' = published
            /\ state' = state
            /\ todo' = todo
            /\ memory' = memory
            /\ watch' = watch]_vars

\* C2 witness: a run found nothing new on a Role that has memory and a watch set.
C2_Witness ==
    /\ lastOp.op = "run"
    /\ lastOp.count = 0
    /\ Len(memory) > 0
    /\ watch # {}
    /\ env # "None"

\* C3: broadcasts per run.  The step in which run completes with a reply hands
\* exactly that Message to the Environment once when one is attached and
\* hands over nothing when none is attached (the reply is still returned); no
\* other step, a run that observes nothing included, publishes anything.
C3_BroadcastPerRun ==
    [][IF lastOp'.op = "_act" /\ lastOp'.ret # <<>>
       THEN IF env # "None"
            THEN /\ published'.n = published.n + 1
                 /\ published'.last = lastOp'.ret
            ELSE published' = published
       ELSE published' = published]_vars

\* C3 witness: after one broadcast reply, a run completed without an
\* Environment: its reply was returned and not broadcast.
C3_Witness ==
    /\ lastOp.op = "_act"
    /\ lastOp.ret # <<>>
    /\ env = "None"
    /\ published.n = 1
    /\ published.last # lastOp.ret

\* The number a string of digit characters stands for, each character read
\* by its Unicode digit value (U+00B2 has the digit value 2).
DigitValue(c) == IF c = "SUP2" THEN 2 ELSE DecimalValue(c)

RECURSIVE NumberOf(_)
NumberOf(a) ==
    IF Len(a) = 0 THEN 0
    ELSE 10 * NumberOf(SubSeq(a, 1, Len(a) - 1)) + DigitValue(a[Len(a)])

IsDigitString(a) == Len(a) > 0 /\ \A i \in 1..Len(a) : a[i] \in DigitChars

\* The state an answer selects among n actions: its value when it is a digit
\* string with a value in 0..n-1, and 0 for every other answer.
Selected(a, n) ==
    IF IsDigitString(a) /\ NumberOf(a) \in 0..(n - 1) THEN NumberOf(a) ELSE 0

\* The backend has delivered an answer to _think.
Answered == lastOp.op = "_think" /\ lastOp.raised # "LLMError"

\* C4: invalid-answer fallback.  With at least two actions, once the backend
\* has answered, state is the number the answer stands for when the answer is
\* a digit string with a value in 0..N-1, and 0 for every other answer, and
\* todo is the action at that index.
C4_InvalidAnswerFallback ==
    (Answered /\ Len(actions) >= 2) =>
        /\ state = Selected(lastOp.answer, Len(actions))
        /\ state < Len(actions)
        /\ todo = actions[state + 1]

\* C5: a malformed or out-of-range answer never aborts the cycle.  For every
\* answer and every action list, _think completes without raising, and an
\* answer that selects no action leaves state 0.
C5_ThinkNeverRaises ==
    Answered =>
        /\ lastOp.raised = ""
        /\ state = Selected(lastOp.answer, Len(actions))

\* C6: single-action determinism.  A Role with exactly one action is never
\* waiting for the backend, and whenever its think step is over (its Action
\* has been called) state is 0 and todo is that action.
C6_SingleActionDeterminism ==
    Len(actions) = 1 =>
        /\ pc # "thinking"
        /\ pc = "acting" => (state = 0 /\ todo = actions[1])

\* C6 witness: a one-action Role that has observed two messages, one of them
\* in an earlier cycle, has gone through its think step.
C6_Witness ==
    /\ Len(actions) = 1
    /\ pc = "acting"
    /\ Len(memory) = 2
    /\ Len(news) = 1
    /\ todo = "SayHi"

\* C7: idle correctness.  The Role reports idle exactly when news is empty,
\* todo is empty and the buffer is empty; right after a put_message of a
\* message it does not report idle.
C7_IdleCorrectness ==
    /\ is_idle <=> (news = <<>> /\ todo = "None" /\ msg_buffer = <<>>)
    /\ (lastOp.op = "put_message" /\ lastOp.arg # <<>>) => ~is_idle

\* C7 witness: a message has just been put into the buffer of a Role that has
\* no news and nothing to do.
C7_Witness ==
    /\ lastOp.op = "put_message"
    /\ lastOp.arg # <<>>
    /\ news = <<>>
    /\ todo = "None"
    /\ ~is_idle

\* C8: when a run that observed at least one message has returned its reply
\* (todo cleared) and nothing has been pushed into the buffer, the Role
\* reports idle.
C8_IdleAfterCycle ==
    (lastOp.op = "_act" /\ lastOp.ret # <<>> /\ todo = "None"
        /\ msg_buffer = <<>>) => is_idle

\* The entries of mem caused by an action in tags, in the order of mem.
RECURSIVE CausedBy(_, _)
CausedBy(mem, tags) ==
    IF mem = <<>> THEN <<>>
    ELSE (IF Head(mem).cause_by \in tags THEN <<Head(mem)>> ELSE <<>>)
         \o CausedBy(Tail(mem), tags)

\* C9: in the step that calls the Action, the argument is the subsequence, in
\* memory order, of all memory entries whose cause_by is in the watch set of
\* that moment.
C9_ActOnImportantMemory ==
    [][(pc' = "acting" /\ pc # "acting") =>
            act_arg' = CausedBy(memory', watch')]_vars

\* C9 witness: the Action has been called with an entry of an earlier cycle
\* that is neither the latest news nor the whole memory.
C9_Witness ==
    /\ pc = "acting"
    /\ act_arg # <<>>
    /\ act_arg # memory
    /\ \A i \in 1..Len(act_arg) : \A j \in 1..Len(news) : act_arg[i] # news[j]
    /\ act_arg = CausedBy(memory, watch)

\* The scenario of C10: two actions SayHi and SayBye, nothing subscribed, a
\* "hello" message observed, the backend has answered "0" and SayHi has been
\* called.
C10_Scenario ==
    /\ actions = <<"SayHi", "SayBye">>
    /\ watch = {}
    /\ lastOp.op = "_think"
    /\ lastOp.answer = <<"0">>
    /\ pc = "acting"
    /\ todo = "SayHi"
    /\ \E i \in 1..Len(news) : news[i].content = "hello"

\* C10: in the scenario, SayHi is called with an important memory that
\* contains the "hello" message.
C10_HelloInImportantMemory ==
    C10_Scenario => \E i \in 1..Len(act_arg) : act_arg[i].content = "hello"

\* C10 as amended: in the scenario, SayHi is called with an empty important
\* memory; the "hello" message is in memory, and no entry is selected because
\* the watch set is empty.
C10_EmptyImportantMemory ==
    C10_Scenario =>
        /\ act_arg = <<>>
        /\ \E i \in 1..Len(memory) : memory[i].content = "hello"

\* C10 witness: the scenario, after one put_message and one run.
C10_Witness ==
    /\ C10_Scenario
    /\ Len(memory) = 1
    /\ pushes = 1

\* C11: subscribe(tags) makes the watch set the union of the old watch set and
\* tags, so subscribing to tags already watched changes nothing, and no step
\* of the Role takes a tag out of the watch set.
C11_SubscribeIsUnion ==
    [][/\ lastOp'.op = "subscribe" =>
            /\ watch' = watch \cup lastOp'.tags
            /\ lastOp'.tags \subseteq watch => watch' = watch
       /\ watch \subseteq watch']_vars

\* C11 witness: after a subscribe the watch set holds the tags just given and
\* tags watched before.
C11_Witness ==
    /\ lastOp.op = "subscribe"
    /\ lastOp.tags = {"SayHi"}
    /\ watch = {"SayHi", RoleName, ObjectName}

\* C12: when run has got a reply from _react, todo is empty when run is over,
\* whether the publish succeeded, failed or was dropped for want of an
\* Environment.
C12_TodoClearedAfterReply ==
    (lastOp.op = "_act" /\ lastOp.raised \in {"", "PublishError"}) =>
        (todo = "None" /\ pc = "idle")

\* C12 witness: a run whose publish failed is over.
C12_Witness ==
    /\ lastOp.op = "_act"
    /\ lastOp.raised = "PublishError"
    /\ todo = "None"
    /\ env # "None"

\* C13: todo is set only between a completed think step and the completed act
\* step of the same cycle, that is, only while the Action call is in flight;
\* it is empty before any think step and when the cycle is over.
C13_TodoOnlyWhileActing ==
    todo # "None" => pc = "acting"

\* C14: whenever the Role is attached to an Environment, the tags the
\* Environment last received for it are its current subscribed tags.
C14_RoutingStaysCurrent ==
    env # "None" => env_tags = <<subscribed_tags(watch)>>

\* The five default aliases of the Role.
DefaultTags == {"Alice", "Role", "Greeter", "Alice(Greeter)", "Alice(Role)"}

\* C15: the subscribed tags are the five default aliases while the watch set is
\* empty and the watch set alone, without the defaults, once it is not; this
\* is also what an attached Environment is told by subscribe.
C15_SubscribedTags ==
    LET expected == IF watch = {} THEN DefaultTags ELSE watch
    IN  /\ subscribed_tags(watch) = expected
        /\ (lastOp.op = "subscribe" /\ env # "None") => env_tags = <<expected>>

\* C15 witness: an attached Environment has been told a watch set that holds
\* none of the default aliases.
C15_Witness ==
    /\ lastOp.op = "subscribe"
    /\ env # "None"
    /\ watch = {"SayHi"}
    /\ env_tags = <<{"SayHi"}>>

\* C16: over any sequence of subscribe calls, prior history is recovered at
\* most once when long-term memory is configured, and never when it is not.
C16_RecoverAtMostOnce ==
    [][/\ (lastOp'.op = "subscribe" /\ lastOp'.count = 1) => ~recovered
       /\ ~ltm_configured => ~recovered']_vars

\* C17: memory is append-only: in every step the history before it is a
\* prefix of the history after it.
C17_MemoryAppendOnly ==
    [][IsPrefix(memory, memory')]_vars

\* C18: concurrent producers.  A put_message, also one that arrives while run
\* is suspended in the backend call or in the Action call, changes only the
\* buffer: news, state, todo and memory of the cycle stay as they are.  The
\* messages pushed so far are, each exactly once and in push order, the
\* entries of memory followed by those of the buffer, and the news is the
\* batch memory ends with.
C18_ConcurrentProducers ==
    [][/\ lastOp'.op = "put_message" =>
            /\ news' = news
            /\ state' = state
            /\ todo' = todo
            /\ memory' = memory
            /\ pc' = pc
            /\ act_arg' = act_arg
       /\ LET all == memory' \o msg_buffer'
          IN  /\ Len(all) = pushes'
              /\ \A i \in 1..Len(all) : all[i].id = i
       /\ Len(news') <= Len(memory')
       /\ SubSeq(memory', Len(memory') - Len(news') + 1, Len(memory')) = news'
      ]_vars

\* C18 witness: a message has been pushed while run is suspended; it waits in
\* the buffer and the news of the cycle is still the message drained before.
C18_Witness ==
    /\ lastOp.op = "put_message"
    /\ lastOp.arg # <<>>
    /\ pc \in {"thinking", "acting"}
    /\ Len(news) = 1
    /\ news[1].id = 1
    /\ Len(msg_buffer) = 1
    /\ msg_buffer[1].id = 2

\* C19: when the Action raises, run ends with that failure and no reply,
\* nothing is published, and the batch the cycle drained stays in memory and
\* is not put back into the buffer.
C19_ActionFailurePropagates ==
    [][(pc = "acting" /\ pc' = "idle" /\ lastOp'.raised = "ActionError") =>
            /\ lastOp'.ret = <<>>
            /\ published' = published
            /\ memory' = memory
            /\ news' = news
            /\ msg_buffer' = msg_buffer
            /\ Len(news) > 0
            /\ SubSeq(memory', Len(memory') - Len(news') + 1, Len(memory'))
                   = news']_vars

\* C19 witness: the Action of an attached Role has raised: nothing has been
\* published, the drained message is in memory and the buffer is empty.
C19_Witness ==
    /\ lastOp.op = "_act"
    /\ lastOp.raised = "ActionError"
    /\ env # "None"
    /\ published.n = 0
    /\ Len(memory) = 1
    /\ msg_buffer = <<>>

\* C20: quiescence is eventually detected.  When producers stop, calls return
\* without failure and run keeps being invoked, the Role eventually reports
\* idle and stays idle: from then on every run finds nothing and returns
\* without starting a cycle.
C20_EventuallyIdle ==
    <>[](is_idle /\ pc = "idle")

\* C20 witness: every message has been pushed and processed, and a later run
\* has found nothing, so the Role reports idle.
C20_Witness ==
    /\ pushes = 2
    /\ Len(memory) = 2
    /\ lastOp.op = "run"
    /\ lastOp.count = 0
    /\ is_idle

====
